---------------------------- MODULE Spec2Model ----------------------------
(***************************************************************************)
(* A model of lichecker: DependencyChecker (dependency resolution over the *)
(* metadata printed by `pip show`, with a class-level cache) and            *)
(* LicenseChecker (license normalisation and the validate() policy check). *)
(*                                                                         *)
(* Python strings are modelled as sequences of one-character strings, so   *)
(* that strip / lower / replace / substring tests are computed and not     *)
(* assumed.  Python's None is the sentinel value None below.               *)
(***************************************************************************)
EXTENDS Naturals, Integers, Sequences, FiniteSets, TLC

(***************************************************************************)
(* String helpers (Python str methods used by the source).                 *)
(***************************************************************************)

\* Python's None; no modelled string equals it (its element is not a character).
None == <<"None">>

\* Python truthiness of an optional string: None and "" are falsy.
Truthy(x) == x # None /\ x # <<>>

\* `a or b` on optional strings.
Or(a, b) == IF Truthy(a) THEN a ELSE b

UpperToLower ==
    [c \in {"A", "B", "C", "D", "E", "F", "G", "H", "I", "J", "K", "L", "M",
            "N", "O", "P", "Q", "R", "S", "T", "U", "V", "W", "X", "Y", "Z"} |->
        CASE c = "A" -> "a" [] c = "B" -> "b" [] c = "C" -> "c" [] c = "D" -> "d"
          [] c = "E" -> "e" [] c = "F" -> "f" [] c = "G" -> "g" [] c = "H" -> "h"
          [] c = "I" -> "i" [] c = "J" -> "j" [] c = "K" -> "k" [] c = "L" -> "l"
          [] c = "M" -> "m" [] c = "N" -> "n" [] c = "O" -> "o" [] c = "P" -> "p"
          [] c = "Q" -> "q" [] c = "R" -> "r" [] c = "S" -> "s" [] c = "T" -> "t"
          [] c = "U" -> "u" [] c = "V" -> "v" [] c = "W" -> "w" [] c = "X" -> "x"
          [] c = "Y" -> "y" [] c = "Z" -> "z"]

\* str.lower()
Lower(s) ==
    [i \in 1..Len(s) |-> IF s[i] \in DOMAIN UpperToLower THEN UpperToLower[s[i]] ELSE s[i]]

\* str.strip(): drop leading and trailing blanks.
Strip(s) ==
    LET keep == {i \in 1..Len(s) : s[i] # " "}
    IN  IF keep = {} THEN <<>>
        ELSE LET lo == CHOOSE i \in keep : \A j \in keep : i <= j
                 hi == CHOOSE i \in keep : \A j \in keep : i >= j
             IN  SubSeq(s, lo, hi)

\* str.replace(from, to) for single characters.
Replace(s, from, to) == [i \in 1..Len(s) |-> IF s[i] = from THEN to ELSE s[i]]

\* `sub in s`
Contains(sub, s) ==
    \E i \in 0..(Len(s) - Len(sub)) : SubSeq(s, i + 1, i + Len(sub)) = sub

\* s.startswith(pre)
StartsWith(s, pre) == Len(pre) <= Len(s) /\ SubSeq(s, 1, Len(pre)) = pre

\* s.endswith(suf)
EndsWith(s, suf) ==
    Len(suf) <= Len(s) /\ SubSeq(s, Len(s) - Len(suf) + 1, Len(s)) = suf

\* s[:-n]
DropLast(s, n) == IF Len(s) > n THEN SubSeq(s, 1, Len(s) - n) ELSE <<>>

\* The only element of a singleton set.  An operator that uses a computed
\* value several times binds it as  The({Body(v) : v \in {e}}),  so that the
\* value is computed once also where TLC evaluates ENABLED.
The(S) == CHOOSE x \in S : TRUE

\* `x in list`
InList(x, l) == \E i \in 1..Len(l) : l[i] = x

\* r.split(", ") on a non-empty string.
RECURSIVE Split(_)
Split(s) ==
    LET cuts == {i \in 1..(Len(s) - 1) : s[i] = "," /\ s[i + 1] = " "}
    IN  IF cuts = {} THEN <<s>>
        ELSE LET c == CHOOSE i \in cuts : \A j \in cuts : i <= j
             IN  <<SubSeq(s, 1, c - 1)>> \o Split(SubSeq(s, c + 2, Len(s)))

(***************************************************************************)
(* LicenseChecker.normalize_license_name                                   *)
(***************************************************************************)

\* LicenseChecker.ALIASES
ALIASES ==
    (<<"A", "S", "L", " ", "2", ".", "0">> :> <<"A", "p", "a", "c", "h", "e", "-", "2", ".", "0">>) @@
    (<<"H", "i", "s", "t", "o", "r", "i", "c", "a", "l", " ", "P", "e", "r", "m", "i", "s", "s", "i", "o", "n", " ", "N", "o", "t", "i", "c", "e", " ", "a", "n", "d", " ", "D", "i", "s", "c", "l", "a", "i", "m", "e", "r">> :> <<"H", "P", "N", "D">>)

normalize_license_name(raw) ==
    LET li0 == Strip(raw)
        li  == IF EndsWith(Lower(li0), <<" ", "l", "i", "c", "e", "n", "s", "e">>)
               THEN Strip(DropLast(li0, 7)) ELSE li0
        low == Lower(li)
    IN  IF li0 \in DOMAIN ALIASES THEN ALIASES[li0]
        ELSE IF Contains(<<"b", "s", "d">>, low) THEN <<"B", "S", "D">>
        ELSE IF Contains(<<"a", "p", "a", "c", "h", "e">>, low) THEN <<"A", "p", "a", "c", "h", "e", "-", "2", ".", "0">>
        ELSE IF Contains(<<"m", "i", "t">>, low) THEN <<"M", "I", "T">>
        ELSE IF StartsWith(li, <<"Z", "P", "L">>) THEN <<"Z", "P", "L">>
        ELSE IF Contains(<<"l", "e", "s", "s", "e", "r", " ", "g", "n", "u", " ", "p", "u", "b", "l", "i", "c", " ", "l", "i", "c", "e", "n", "s", "e">>, low) THEN <<"L", "G", "P", "L">>
        ELSE IF Contains(<<"g", "n", "u", " ", "p", "u", "b", "l", "i", "c", " ", "l", "i", "c", "e", "n", "s", "e">>, low) THEN <<"G", "P", "L">>
        ELSE IF Contains(<<"p", "y", "t", "h", "o", "n">>, low) THEN <<"P", "S", "F">>
        ELSE IF li \in DOMAIN ALIASES THEN ALIASES[li] ELSE li

(***************************************************************************)
(* State                                                                   *)
(***************************************************************************)
VARIABLES
    meta,                     \* what `pip show` knows: installed package -> metadata
    cache,                    \* DependencyChecker.cache (class attribute)
    queries,                  \* the `pip show` invocations made so far, in order
    pkg_name,                 \* self.pkg_name
    data,                     \* self._data
    deps,                     \* self._deps
    transient,                \* self._transient_dependencies (insertion-ordered dict)
    new_deps,                 \* the local new_deps of transient_dependencies
    frontiers,                \* the frontiers the running resolution has expanded
    pc,                       \* "idle" | "loop" | "check"
    ret,                      \* who called transient_dependencies
    license_overrides,        \* constructor argument
    whitelisted_packages,     \* constructor argument
    overrides,                \* self._license_overrides
    whitelist,                \* self._whitelist
    flags,                    \* self.allow_*
    pkgs,                     \* the local pkgs of validate()
    idx,                      \* position of validate()'s for loop in pkgs
    normalized,               \* packages whose license validate() has normalized
    result,                   \* outcome of the last validate() call
    calls                     \* get_package_data calls made by other callers

vars == <<meta, cache, queries, pkg_name, data, deps, transient, new_deps,
          frontiers, pc, ret, license_overrides, whitelisted_packages,
          overrides, whitelist, flags, pkgs, idx, normalized, result, calls>>

resolver == <<pkg_name, data, deps, transient, new_deps, frontiers, ret>>
policy   == <<license_overrides, whitelisted_packages, overrides, whitelist, flags>>
checker  == <<pkgs, idx, normalized, result>>

(***************************************************************************)
(* Bounds of the model                                                     *)
(***************************************************************************)
\* longest Requires list of an installed package
MaxReq == 2
\* number of get_package_data calls made by other callers
MaxDirect == 2
\* number of frontiers kept in the log `frontiers`
MaxRounds == 6
\* number of flags a caller changes from their defaults
MaxFlips == 2

(***************************************************************************)
(* The metadata provider: `pip show <name>` and the parse of its output    *)
(***************************************************************************)
root  == <<"r", "o", "o", "t">>
pkg_a == <<"p", "k", "g", "-", "a">>
pkg_b == <<"p", "k", "g", "-", "b">>

\* the installed distributions
Installed == {root, pkg_a, pkg_b}

\* pip looks a name up case-insensitively, with "_" and "-" unified
PipCanonical(name) == Replace(Lower(name), "_", "-")

\* ", ".join(names)
RECURSIVE Join(_)
Join(names) ==
    IF Len(names) = 0 THEN <<>>
    ELSE IF Len(names) = 1 THEN names[1]
    ELSE names[1] \o <<",", " ">> \o Join(Tail(names))

\* the empty dict {}
NoData == [Version |-> None, License |-> None, Requires |-> None]

\* The dict built from the output of `pip show name`: a key whose value is
\* empty is left out (`if v`), so an empty "Requires: " or "License: " line
\* reads as absent.  Name and Version are always printed, so the dict of an
\* installed package is never empty.
PipShow(name) ==
    The({[Version  |-> <<"1", ".", "0">>,
          License  |-> IF Truthy(m.License) THEN m.License ELSE None,
          Requires |-> IF Truthy(Join(m.Requires)) THEN Join(m.Requires) ELSE None] :
            m \in {meta[PipCanonical(name)]}})

(***************************************************************************)
(* DependencyChecker                                                       *)
(***************************************************************************)

\* a get_package_data that stores under the name as given
get_package_data_raw_key(name, use, c, q) ==
    The({IF use /\ key \in DOMAIN c /\ c[key] # NoData
         THEN [data |-> c[key], cache |-> c, queries |-> q]
         ELSE The({[data    |-> d,
                    cache   |-> IF use /\ d # NoData THEN (name :> d) @@ c ELSE c,
                    queries |-> Append(q, [name |-> key, cache |-> use])] :
                      d \in {PipShow(key)}}) :
            key \in {Replace(Strip(name), "_", "-")}})

\* get_package_data(pkg_name, cache=use): the dict returned, and the cache
\* and query log it leaves, from the cache c and log q.
get_package_data(name, use, c, q) ==
    The({IF use /\ key \in DOMAIN c /\ c[key] # NoData
         THEN [data |-> c[key], cache |-> c, queries |-> q]
         ELSE The({[data    |-> d,
                    cache   |-> IF use /\ d # NoData THEN (key :> d) @@ c ELSE c,
                    queries |-> Append(q, [name |-> key, cache |-> use])] :
                      d \in {PipShow(key)}}) :
            key \in {Replace(Strip(name), "_", "-")}})

\* get_direct_dependencies(pkg_name)
get_direct_dependencies(name, c, q) ==
    The({[deps    |-> IF Truthy(g.data.Requires) THEN Split(g.data.Requires) ELSE <<>>,
          cache   |-> g.cache,
          queries |-> g.queries] :
            g \in {get_package_data(name, TRUE, c, q)}})

\* the property `dependencies`
dependencies(c, q) ==
    IF deps # <<>> THEN [deps |-> deps, cache |-> c, queries |-> q]
    ELSE LET g == get_direct_dependencies(pkg_name, c, q)
             Keep(dep) == dep # <<>> /\ dep # pkg_name
         IN  [deps |-> SelectSeq(g.deps, Keep), cache |-> g.cache, queries |-> g.queries]

\* dict operations on the insertion-ordered dict, a sequence of [k, v]
Keys(td) == {td[i].k : i \in 1..Len(td)}
HasKey(td, k) == \E i \in 1..Len(td) : td[i].k = k
Put(td, k, v) ==
    IF HasKey(td, k)
    THEN [i \in 1..Len(td) |-> IF td[i].k = k THEN [k |-> k, v |-> v] ELSE td[i]]
    ELSE Append(td, [k |-> k, v |-> v])

\* line 41-42: for dep in new_deps: td[dep] = get_direct_dependencies(dep)
RECURSIVE ExpandAll(_, _, _, _)
ExpandAll(nd, td, c, q) ==
    IF nd = <<>> THEN [td |-> td, cache |-> c, queries |-> q]
    ELSE The({ExpandAll(Tail(nd), Put(td, Head(nd), g.deps), g.cache, g.queries) :
                g \in {get_direct_dependencies(Head(nd), c, q)}})

\* a membership test against the frontier just expanded only
UnvisitedInFrontier(d, td) == ~InList(d, new_deps)

\* is d still to be expanded, given the accumulated dict td
Unvisited(d, td) == ~HasKey(td, d)

\* a next frontier that scans only the item inserted last
NextFrontierOfLast(td, i) ==
    IF td = <<>> THEN <<>>
    ELSE LET New(d) == Unvisited(d, td)
         IN  SelectSeq(td[Len(td)].v, New)

\* line 43-45: the next frontier, over the items of td from position i
RECURSIVE NextFrontier(_, _)
NextFrontier(td, i) ==
    IF i > Len(td) THEN <<>>
    ELSE LET New(d) == Unvisited(d, td)
         IN  SelectSeq(td[i].v, New) \o NextFrontier(td, i + 1)

\* the frontier log, kept to MaxRounds entries
Logged(fr, nd) == IF Len(fr) < MaxRounds THEN Append(fr, nd) ELSE fr

\* transient_dependencies, up to the first test of `while new_deps`
StartResolution(c, q, who) ==
    LET d  == dependencies(c, q)
        ad == Keys(transient)
        In(k) == k \notin ad
    IN  /\ deps' = d.deps
        /\ new_deps' = SelectSeq(d.deps, In)
        /\ cache' = d.cache
        /\ queries' = d.queries
        /\ frontiers' = <<>>
        /\ ret' = who
        /\ pc' = "loop"
        /\ UNCHANGED <<transient, pkg_name>>

\* a caller reads the property transient_dependencies
TransientCall ==
    /\ pc = "idle"
    /\ StartResolution(cache, queries, "accessor")
    /\ UNCHANGED <<meta, data, policy, checker, calls>>

\* one iteration of `while new_deps`
ExpandFrontier ==
    /\ pc = "loop"
    /\ new_deps # <<>>
    /\ \E e \in {ExpandAll(new_deps, transient, cache, queries)} :
          /\ transient' = e.td
          /\ cache' = e.cache
          /\ queries' = e.queries
          /\ new_deps' = NextFrontier(e.td, 1)
    /\ frontiers' = Logged(frontiers, new_deps)
    /\ UNCHANGED <<meta, pkg_name, data, deps, pc, ret, policy, checker, calls>>

\* `while new_deps` ends; the property returns self._transient_dependencies
TransientReturn ==
    /\ pc = "loop"
    /\ new_deps = <<>>
    /\ ret = "accessor"
    /\ pc' = "idle"
    /\ UNCHANGED <<meta, cache, queries, resolver, policy, checker, calls>>

(***************************************************************************)
(* LicenseChecker                                                          *)
(***************************************************************************)

\* dict.get(k)
Get(d, k) == IF k \in DOMAIN d THEN d[k] ELSE None

\* a lookup of the override dict that forgets to lower-case the name
OverrideForRaw(p) == Get(overrides, p)

\* self._license_overrides.get(p.lower())
OverrideFor(p) == Get(overrides, Lower(p))

\* the property LicenseChecker.license: the override, or else
\* DependencyChecker.license, which fetches self._data when it is empty
license(c, q) ==
    LET o == OverrideFor(pkg_name)
    IN  IF Truthy(o) THEN [li |-> o, data |-> data, cache |-> c, queries |-> q]
        ELSE IF data # NoData
             THEN [li |-> data.License, data |-> data, cache |-> c, queries |-> q]
             ELSE LET g == get_package_data(pkg_name, TRUE, c, q)
                  IN  [li |-> g.data.License, data |-> g.data,
                       cache |-> g.cache, queries |-> g.queries]

\* the property LicenseChecker.licenses over the resolved dict td, from
\* position i: a dict keyed by p.lower(), as a sequence of [k, v]
RECURSIVE licenses(_, _, _, _, _)
licenses(td, i, acc, c, q) ==
    IF i > Len(td) THEN [items |-> acc, cache |-> c, queries |-> q]
    ELSE LET p == td[i].k
             o == OverrideFor(p)
         IN  IF Truthy(o)
             THEN licenses(td, i + 1, Put(acc, Lower(p), o), c, q)
             ELSE LET g == get_package_data(p, TRUE, c, q)
                  IN  licenses(td, i + 1,
                               Put(acc, Lower(p), Or(o, g.data.License)),
                               g.cache, g.queries)

\* line 140
valid ==
    {<<"m", "i", "t">>, <<"a", "p", "a", "c", "h", "e", "-", "2", ".", "0">>, <<"u", "n", "l", "i", "c", "e", "n", "s", "e">>, <<"m", "p", "l", "-", "2", ".", "0">>, <<"i", "s", "c">>,
     <<"b", "s", "d">>, <<"p", "s", "f">>, <<"z", "p", "l">>, <<"h", "p", "n", "d">>}

\* line 144: `pkg in self._whitelist`
Whitelisted(pkg, wl) == InList(pkg, wl)

\* the messages of lines 149-161
MsgLinking(pkg, li) ==
    pkg \o <<" ", "i", "s", " ", "l", "i", "c", "e", "n", "s", "e", "d", " ", "u", "n", "d", "e", "r", " ">> \o li
        \o <<" ", "w", "h", "i", "c", "h", " ", "h", "a", "s", " ", "u", "n", "c", "l", "e", "a", "r", " ", "i", "m", "p", "l", "i", "c", "a", "t", "i", "o", "n", "s", " ", "i", "n", " ", "t", "h", "e", " ", "p", "y", "t", "h", "o", "n", " ", "w", "o", "r", "l", "d">>
MsgCodeFlowNoLicense(pkg, li) ==
    pkg \o <<" ", "i", "s", " ", "l", "i", "c", "e", "n", "s", "e", "d", " ", "u", "n", "d", "e", "r", " ", "a", " ", "l", "i", "c", "e", "n", "s", "e", " ", "w", "h", "i", "c", "h", " ", "p", "l", "a", "c", "e", "s", " ", "r", "e", "s", "t", "r", "i", "c", "t", "i", "o", "n", "s", " ", "i", "n", " ", "l", "a", "r", "g", "e", "r", " ", "w", "o", "r", "k", "s">>
MsgCodeFlow(pkg, li) ==
    pkg \o <<" ", "i", "s", " ", "l", "i", "c", "e", "n", "s", "e", "d", " ", "u", "n", "d", "e", "r", " ">> \o li
        \o <<" ", "w", "h", "i", "c", "h", " ", "p", "l", "a", "c", "e", "s", " ", "r", "e", "s", "t", "r", "i", "c", "t", "i", "o", "n", "s", " ", "i", "n", " ", "l", "a", "r", "g", "e", "r", " ", "w", "o", "r", "k", "s">>
MsgUnlicense(pkg, li) ==
    <<"U", "n", "l", "i", "c", "e", "n", "s", "e", " ", "i", "s", " ", "n", "o", "t", " ", "g", "l", "o", "b", "a", "l", ".", " ", "I", "t", " ", "d", "o", "e", "s", "n", "'", "t", " ", "m", "a", "k", "e", " ", "s", "e", "n", "s", "e", " ", "i", "n", " ", "s", "o", "m", "e", " ", "j", "u", "r", "i", "s", "d", "i", "c", "t", "i", "o", "n", "s", ".", "\n">>
        \o <<"I", "t", "'", "s", " ", "i", "n", "c", "o", "n", "s", "i", "s", "t", "e", "n", "t", ".", " ", "S", "o", "m", "e", " ", "o", "f", " ", "t", "h", "e", " ", "w", "a", "r", "r", "a", "n", "t", "y", " ", "t", "e", "r", "m", "s", " ", "c", "a", "n", "n", "o", "t", ",", " ", "l", "o", "g", "i", "c", "a", "l", "l", "y", ",", " ", "c", "o", "-", "e", "x", "i", "s", "t", ".", "\n">>
        \o <<"T", "h", "e", " ", "l", "i", "c", "e", "n", "s", "e", " ", "i", "s", " ", "s", "h", "o", "r", "t", ",", " ", "c", "l", "e", "a", "r", "l", "y", " ", "e", "x", "p", "r", "e", "s", "s", "i", "n", "g", " ", "i", "n", "t", "e", "n", "t", ",", " ", "a", "t", " ", "t", "h", "e", " ", "c", "o", "s", "t", " ", "o", "f", " ", "n", "o", "t", " ">>
        \o <<"c", "a", "r", "e", "f", "u", "l", "l", "y", " ", "a", "d", "d", "r", "e", "s", "s", "i", "n", "g", " ", "c", "o", "m", "m", "o", "n", " ", "l", "i", "c", "e", "n", "s", "e", ",", " ", "c", "o", "p", "y", "-", "r", "i", "g", "h", "t", " ", "a", "n", "d", " ", "w", "a", "r", "r", "a", "n", "t", "y", " ", "i", "s", "s", "u", "e", "s", ".">>
MsgPublicDomain(pkg, li) ==
    <<"P", "u", "b", "l", "i", "c", " ", "d", "o", "m", "a", "i", "n", " ", "d", "e", "d", "i", "c", "a", "t", "i", "o", "n", "s", " ", "a", "r", "e", " ", "n", "o", "t", " ", "l", "i", "c", "e", "n", "s", "e", "s">>
MsgUnknown(pkg, li) ==
    pkg \o <<" ", "l", "i", "c", "e", "n", "s", "e", " ", "u", "n", "k", "n", "o", "w", "n", ",", " ", "n", "o", " ", "p", "e", "r", "m", "i", "s", "s", "i", "o", "n", "s", " ", "g", "i", "v", "e", "n">>

NoResult == [kind |-> "none", pkg |-> None, li |-> None, msg |-> <<>>]
Raise(kind, pkg, li, msg) == [kind |-> kind, pkg |-> pkg, li |-> li, msg |-> msg]

\* lines 147-161 for one (pkg, li) of pkgs: the exception raised, or NoResult
\* when the loop goes on.  normalize_license_name(None) fails in li.strip().
CheckLicense(pkg, raw, fl) ==
    IF raw = None
    THEN Raise("AttributeError", pkg, None,
               <<"'", "N", "o", "n", "e", "T", "y", "p", "e", "'", " ", "o", "b", "j", "e", "c", "t", " ", "h", "a", "s", " ", "n", "o", " ", "a", "t", "t", "r", "i", "b", "u", "t", "e", " ", "'", "s", "t", "r", "i", "p", "'">>)
    ELSE LET li == Lower(normalize_license_name(raw))
         IN  IF Contains(<<"l", "g", "p", "l">>, li) /\ ~fl.allow_lgpl
             THEN Raise("PythonLinkingException", pkg, li, MsgLinking(pkg, li))
             ELSE IF Contains(<<"g", "p", "l">>, li) /\ ~fl.allow_viral
             THEN Raise("UnidirectionalCodeFlow", pkg, li, MsgCodeFlow(pkg, li))
             ELSE IF Contains(<<"u", "n", "l", "i", "c", "e", "n", "s", "e">>, li) /\ ~fl.allow_unlicense
             THEN Raise("InconsistentLicense", pkg, li, MsgUnlicense(pkg, li))
             ELSE IF Contains(<<"p", "u", "b", "l", "i", "c", " ", "d", "o", "m", "a", "i", "n">>, li)
             THEN IF ~fl.allow_public_domain
                  THEN Raise("BadLicense", pkg, li, MsgPublicDomain(pkg, li))
                  ELSE NoResult
             ELSE IF ~fl.allow_nonfree /\ ~fl.allow_unknown /\ li \notin valid
             THEN Raise("UnknownLicense", pkg, li, MsgUnknown(pkg, li))
             ELSE NoResult

\* validate() is called: line 141 reads self.license, then self.licenses
\* reads the property transient_dependencies
ValidateCall ==
    /\ pc = "idle"
    /\ LET l == license(cache, queries)
       IN  /\ data' = l.data
           /\ pkgs' = <<[k |-> Lower(pkg_name), v |-> l.li]>>
           /\ StartResolution(l.cache, l.queries, "validate")
    /\ idx' = 0
    /\ normalized' = {}
    /\ result' = NoResult
    /\ UNCHANGED <<meta, policy, calls>>

\* transient_dependencies returns to self.licenses; pkgs is complete
BuildPkgs ==
    /\ pc = "loop"
    /\ new_deps = <<>>
    /\ ret = "validate"
    /\ LET l == licenses(transient, 1, <<>>, cache, queries)
       IN  /\ pkgs' = pkgs \o l.items
           /\ cache' = l.cache
           /\ queries' = l.queries
    /\ idx' = 1
    /\ pc' = "check"
    /\ UNCHANGED <<meta, resolver, policy, normalized, result, calls>>

\* line 144-146: a whitelisted package is skipped
ValidateSkip ==
    /\ pc = "check"
    /\ idx <= Len(pkgs)
    /\ Whitelisted(pkgs[idx].k, whitelist)
    /\ idx' = idx + 1
    /\ UNCHANGED <<meta, cache, queries, resolver, policy, pc, pkgs, normalized,
                   result, calls>>

\* line 147-161: the package passes
ValidatePass ==
    /\ pc = "check"
    /\ idx <= Len(pkgs)
    /\ ~Whitelisted(pkgs[idx].k, whitelist)
    /\ CheckLicense(pkgs[idx].k, pkgs[idx].v, flags) = NoResult
    /\ normalized' = normalized \cup {pkgs[idx].k}
    /\ idx' = idx + 1
    /\ UNCHANGED <<meta, cache, queries, resolver, policy, pc, pkgs, result, calls>>

\* line 147-161: the package fails and validate() raises
ValidateRaise ==
    /\ pc = "check"
    /\ idx <= Len(pkgs)
    /\ ~Whitelisted(pkgs[idx].k, whitelist)
    /\ CheckLicense(pkgs[idx].k, pkgs[idx].v, flags) # NoResult
    /\ normalized' = normalized \cup {pkgs[idx].k}
    /\ result' = CheckLicense(pkgs[idx].k, pkgs[idx].v, flags)
    /\ pc' = "idle"
    /\ UNCHANGED <<meta, cache, queries, resolver, policy, pkgs, idx, calls>>

\* the for loop is exhausted: validate() returns None
ValidateReturn ==
    /\ pc = "check"
    /\ idx > Len(pkgs)
    /\ result' = [NoResult EXCEPT !.kind = "ok"]
    /\ pc' = "idle"
    /\ UNCHANGED <<meta, cache, queries, resolver, policy, pkgs, idx, normalized,
                   calls>>

\* another caller (any code, any other checker instance) calls
\* DependencyChecker.get_package_data(name, cache=use)
DirectNames == {<<"p", "k", "g", "-", "a">>, <<"P", "k", "g", "_", "A">>, <<" ", "p", "k", "g", "-", "b">>, <<"r", "o", "o", "t">>}

Fetch ==
    /\ pc = "idle"
    /\ calls < MaxDirect
    /\ \E name \in DirectNames, use \in BOOLEAN :
          LET g == get_package_data(name, use, cache, queries)
          IN  /\ cache' = g.cache
              /\ queries' = g.queries
    /\ calls' = calls + 1
    /\ UNCHANGED <<meta, resolver, pc, policy, checker>>

(***************************************************************************)
(* Initial states                                                          *)
(***************************************************************************)
\* LicenseChecker.__init__ defaults
DefaultFlags ==
    [allow_nonfree |-> FALSE, allow_viral |-> FALSE, allow_unknown |-> FALSE,
     allow_unlicense |-> FALSE, allow_lgpl |-> FALSE, allow_ambiguous |-> FALSE,
     allow_public_domain |-> TRUE]

\* {k.lower(): v for k, v in license_overrides.items()}
LowerKeys(d) ==
    [k \in {Lower(j) : j \in DOMAIN d} |->
        d[CHOOSE j \in DOMAIN d : Lower(j) = k]]

\* a whitelist kept as given
KeepAll(l) == l

\* [p.lower() for p in whitelist]
LowerAll(l) == [i \in 1..Len(l) |-> Lower(l[i])]

\* DependencyChecker.__init__ and LicenseChecker.__init__ for the root package
Construct(name, lo, wl, fl) ==
    /\ pkg_name = name
    /\ data = NoData
    /\ deps = <<>>
    /\ transient = <<>>
    /\ license_overrides = lo
    /\ whitelisted_packages = wl
    /\ overrides = LowerKeys(lo)
    /\ whitelist = LowerAll(wl)
    /\ flags = fl
    /\ cache = <<>>
    /\ queries = <<>>
    /\ new_deps = <<>>
    /\ frontiers = <<>>
    /\ pc = "idle"
    /\ ret = "none"
    /\ pkgs = <<>>
    /\ idx = 0
    /\ normalized = {}
    /\ result = NoResult
    /\ calls = 0

\* all lists of at most n distinct elements of S (pip prints each required
\* name once)
ListsUpTo(S, n) ==
    UNION {{l \in [1..k -> S] : \A i, j \in 1..k : l[i] = l[j] => i = j} : k \in 0..n}

\* every requires graph over the installed packages
ResolveInit ==
    /\ meta \in [Installed -> [License : {<<"M", "I", "T">>},
                               Requires : ListsUpTo(Installed, MaxReq)]]
    /\ Construct(root, <<>>, <<>>, DefaultFlags)

ResolveNext == TransientCall \/ ExpandFrontier \/ TransientReturn

ResolveSpec == ResolveInit /\ [][ResolveNext]_vars

\* the interpreter keeps running the loop of transient_dependencies
FairResolveSpec ==
    /\ ResolveSpec
    /\ WF_vars(ExpandFrontier)
    /\ WF_vars(TransientReturn)

\* the license strings of the metadata
LicenseTexts ==
    {<<"M", "I", "T">>, <<"A", "p", "a", "c", "h", "e", " ", "S", "o", "f", "t", "w", "a", "r", "e", " ", "L", "i", "c", "e", "n", "s", "e">>, <<"G", "P", "L">>, <<"L", "G", "P", "L">>,
     <<"G", "N", "U", " ", "G", "e", "n", "e", "r", "a", "l", " ", "P", "u", "b", "l", "i", "c", " ", "L", "i", "c", "e", "n", "s", "e", " ", "v", "2">>, <<"U", "n", "l", "i", "c", "e", "n", "s", "e">>,
     <<"P", "u", "b", "l", "i", "c", " ", "D", "o", "m", "a", "i", "n">>, <<"U", "N", "K", "N", "O", "W", "N">>, None}

\* requires graphs: a chain, and a fan that names pkg-b in another case
Graphs ==
    {[r |-> <<pkg_a>>, a |-> <<pkg_b>>, b |-> <<>>],
     [r |-> <<pkg_a, <<"P", "k", "g", "-", "B">>>>, a |-> <<>>, b |-> <<root>>]}

\* the flag settings with at most n flags changed from their defaults
FlagNames ==
    {"allow_nonfree", "allow_viral", "allow_unknown", "allow_unlicense",
     "allow_lgpl", "allow_public_domain"}
FlagsWithin(n) ==
    {[f \in DOMAIN DefaultFlags |-> IF f \in S THEN ~DefaultFlags[f] ELSE DefaultFlags[f]] :
        S \in {T \in SUBSET FlagNames : Cardinality(T) <= n}}

Whitelists == {<<>>, <<<<"P", "K", "G", "-", "B">>>>, <<<<"R", "o", "o", "t">>, <<"p", "k", "g", "-", "a">>>>}

Overrides ==
    {<<>>, (<<"P", "k", "g", "-", "B">> :> <<"M", "I", "T">>), (<<"p", "k", "g", "-", "b">> :> <<>>)}

Init ==
    /\ \E g \in Graphs, lr \in {<<"M", "I", "T">>, <<"G", "P", "L">>},
          la \in {<<"M", "I", "T">>, <<"G", "P", "L">>, None}, lb \in LicenseTexts :
          meta = (root  :> [License |-> lr, Requires |-> g.r]) @@
                 (pkg_a :> [License |-> la, Requires |-> g.a]) @@
                 (pkg_b :> [License |-> lb, Requires |-> g.b])
    /\ \E lo \in Overrides, wl \in Whitelists, fl \in FlagsWithin(MaxFlips) :
          Construct(root, lo, wl, fl)

Next ==
    \/ ValidateCall
    \/ ExpandFrontier
    \/ BuildPkgs
    \/ ValidateSkip
    \/ ValidatePass
    \/ ValidateRaise
    \/ ValidateReturn

Spec == Init /\ [][Next]_vars

\* the cache under calls from several callers
CacheInit ==
    /\ \E g \in Graphs \cup {[r |-> <<<<"p", "k", "g", "_", "a">>>>, a |-> <<pkg_b, root>>, b |-> <<pkg_a>>]} :
          meta = (root  :> [License |-> <<"M", "I", "T">>, Requires |-> g.r]) @@
                 (pkg_a :> [License |-> <<"M", "I", "T">>, Requires |-> g.a]) @@
                 (pkg_b :> [License |-> <<"M", "I", "T">>, Requires |-> g.b])
    /\ Construct(root, <<>>, <<>>, DefaultFlags)

CacheNext ==
    \/ Fetch
    \/ TransientCall
    \/ ExpandFrontier
    \/ TransientReturn
    \/ ValidateCall
    \/ BuildPkgs
    \/ ValidatePass
    \/ ValidateReturn

CacheSpec == CacheInit /\ [][CacheNext]_vars

(***************************************************************************)
(* Properties                                                              *)
(***************************************************************************)
Elems(l) == {l[i] : i \in 1..Len(l)}

\* the names the metadata mentions
Names == Installed \cup UNION {Elems(meta[p].Requires) : p \in Installed}

\* what `pip show` reports as required by a name
Requires(n) == Elems(meta[PipCanonical(n)].Requires)

\* the least set of names that holds S and is closed under Requires
RECURSIVE Closure(_)
Closure(S) ==
    LET T == S \cup UNION {Requires(n) : n \in S}
    IN  IF T = S THEN S ELSE Closure(T)

\* the root's direct dependencies, its own name removed
Direct == Requires(pkg_name) \ {pkg_name}

\* how often the running resolution has expanded name n (line 42)
Expansions(n) ==
    Cardinality(UNION {{<<i, j>> : j \in {j \in 1..Len(frontiers[i]) : frontiers[i][j] = n}} :
                          i \in 1..Len(frontiers)})

\* in how many iterations of the loop name n was expanded
Rounds(n) == Cardinality({i \in 1..Len(frontiers) : InList(n, frontiers[i])})

Resolving == pc = "loop"
Resolved  == pc = "idle" /\ ret = "accessor"

\* C1 as stated: resolution finishes, and no package name is expanded (has
\* its direct dependencies fetched and inserted) more than once.
C1_ExpandedAtMostOnce ==
    /\ Resolving ~> Resolved
    /\ [](\A n \in Names : Expansions(n) <= 1)

\* C1 as amended: resolution of every requires graph, cyclic ones included,
\* finishes, and no name is expanded in more than one iteration of the
\* frontier loop (a name that several packages of one frontier require is
\* fetched and inserted once per mention within that single iteration).
C1_TerminatesOneRoundPerName ==
    /\ Resolving ~> Resolved
    /\ [](\A n \in Names : Rounds(n) <= 1)

\* a resolution over a cycle through the root has finished, and one name
\* was expanded twice in one iteration
C1_Witness ==
    /\ Resolved
    /\ HasKey(transient, pkg_name)
    /\ \E n \in Names : Expansions(n) = 2 /\ Rounds(n) = 1

\* C2: when transient_dependencies has returned, the keys of the mapping are
\* exactly the names reachable over requires edges from the root's direct
\* dependencies, and every name in a stored list is itself a key.
C2_KeysAreReachableSet ==
    Resolved =>
        /\ Keys(transient) = Closure(Direct)
        /\ \A i \in 1..Len(transient) : Elems(transient[i].v) \subseteq Keys(transient)

\* root requires pkg-a and pkg-a requires root: the keys are {pkg-a, root}
C2_Witness ==
    /\ Resolved
    /\ meta[root].Requires = <<pkg_a>>
    /\ meta[pkg_a].Requires = <<root>>
    /\ Keys(transient) = {pkg_a, root}

Typed ==
    {"PythonLinkingException", "UnidirectionalCodeFlow", "InconsistentLicense",
     "BadLicense", "UnknownLicense"}

\* validate() has ended, by returning or by raising
Finished == pc = "idle" /\ result.kind # "none"

\* no overrides and no whitelist are in force
PlainPolicy == license_overrides = <<>> /\ whitelisted_packages = <<>>

\* the dependencies of the root in every graph of Graphs
Dependencies == Installed \ {root}

NormalizesTo(l, token) == l # None /\ normalize_license_name(l) = token
Acceptable(l) == l # None /\ Lower(normalize_license_name(l)) \in valid

\* package d is the only one whose license is not acceptable
OnlyOffender(d) == \A p \in Installed \ {d} : Acceptable(meta[p].License)

\* C3: with a dependency that normalizes to "GPL", everything else
\* acceptable and the other flags at their defaults, validate() fails with
\* UnidirectionalCodeFlow when allow_viral is false and completes silently
\* when allow_viral is true.
C3_ViralFlagGatesGPL ==
    (/\ Finished
     /\ PlainPolicy
     /\ flags = [DefaultFlags EXCEPT !.allow_viral = flags.allow_viral]
     /\ \E d \in Dependencies :
           NormalizesTo(meta[d].License, <<"G", "P", "L">>) /\ OnlyOffender(d))
    => IF flags.allow_viral
       THEN result.kind = "ok"
       ELSE result.kind = "UnidirectionalCodeFlow"

\* C4: root -> pkg-a (MIT) -> pkg-b ("GNU General Public License v2") under
\* the default policy: validate() fails with UnidirectionalCodeFlow naming
\* pkg-b.
C4_GPLv2FailsWithCodeFlow ==
    (/\ Finished
     /\ PlainPolicy
     /\ flags = DefaultFlags
     /\ meta[root].Requires = <<pkg_a>>
     /\ meta[pkg_a].Requires = <<pkg_b>>
     /\ Acceptable(meta[root].License)
     /\ meta[pkg_a].License = <<"M", "I", "T">>
     /\ meta[pkg_b].License = <<"G", "N", "U", " ", "G", "e", "n", "e", "r", "a", "l", " ", "P", "u", "b", "l", "i", "c", " ", "L", "i", "c", "e", "n", "s", "e", " ", "v", "2">>)
    => /\ result.kind = "UnidirectionalCodeFlow"
       /\ result.pkg = pkg_b
       /\ Contains(pkg_b, result.msg)

\* C5: a dependency without a License field, not whitelisted and without
\* override, with allow_unknown and allow_nonfree false (every other package
\* acceptable): validate() fails with UnknownLicense.
C5_AbsentLicenseIsUnknown ==
    (/\ Finished
     /\ PlainPolicy
     /\ ~flags.allow_unknown
     /\ ~flags.allow_nonfree
     /\ \E d \in Dependencies : meta[d].License = None /\ OnlyOffender(d))
    => result.kind = "UnknownLicense"

\* C6 as stated: whenever validate() fails with a typed error, the message
\* names the offending package and its normalized license token.
C6_MessageNamesPackageAndLicense ==
    (Finished /\ result.kind \in Typed)
    => Contains(result.pkg, result.msg) /\ Contains(result.li, result.msg)

\* C6 as amended: a PythonLinkingException or UnidirectionalCodeFlow message
\* names the offending package and its lower-cased normalized license token;
\* an UnknownLicense message names the offending package; an
\* InconsistentLicense or BadLicense message is a fixed text into which the
\* package name is not inserted.
C6_MessageByKind ==
    (Finished /\ result.kind \in Typed)
    => /\ result.kind \in {"PythonLinkingException", "UnidirectionalCodeFlow"}
            => /\ Contains(result.pkg, result.msg)
               /\ Contains(result.li, result.msg)
               /\ result.li = Lower(normalize_license_name(
                                  pkgs[CHOOSE i \in 1..Len(pkgs) : pkgs[i].k = result.pkg].v))
       /\ result.kind = "UnknownLicense" => Contains(result.pkg, result.msg)
       /\ result.kind \in {"InconsistentLicense", "BadLicense"}
            => ~Contains(result.pkg, result.msg)

\* validate() has failed with UnknownLicense on pkg-b, and the message does
\* not hold the license token
C6_Witness ==
    /\ Finished
    /\ result.kind = "UnknownLicense"
    /\ result.pkg = pkg_b
    /\ Contains(result.pkg, result.msg)
    /\ ~Contains(result.li, result.msg)

\* is name p, compared case-insensitively, in the whitelist given
OnWhitelist(p) ==
    \E i \in 1..Len(whitelisted_packages) : Lower(whitelisted_packages[i]) = Lower(p)

\* C7: validate() raises no error on account of a whitelisted package,
\* whatever its license and the flags, and never normalizes its license.
C7_WhitelistShortCircuit ==
    /\ result.kind \notin {"none", "ok"} => ~OnWhitelist(result.pkg)
    /\ \A p \in normalized : ~OnWhitelist(p)

\* validate() has passed although a package that the whitelist names in
\* another case has a GPL license, an unknown one or none
C7_Witness ==
    /\ Finished
    /\ result.kind = "ok"
    /\ \E i \in 1..Len(pkgs) :
          /\ OnWhitelist(pkgs[i].k)
          /\ ~InList(pkgs[i].k, whitelisted_packages)
          /\ pkgs[i].v \in {None, <<"G", "P", "L">>, <<"U", "N", "K", "N", "O", "W", "N">>}

\* the override given for name k (compared in lower case), if any
HasOverride(k) == \E j \in DOMAIN license_overrides : Lower(j) = Lower(k)
OverrideValue(k) ==
    license_overrides[CHOOSE j \in DOMAIN license_overrides : Lower(j) = Lower(k)]
Fetched(k) == meta[PipCanonical(k)].License

C9_LgplDecidedByAllowLgpl ==
    (/\ Finished
     /\ result.pkg # None
     /\ result.li # None
     /\ Contains(<<"l", "g", "p", "l">>, result.li))
    => IF flags.allow_lgpl
       THEN result.kind # "UnidirectionalCodeFlow"
       ELSE result.kind = "PythonLinkingException"

\* the `pip show` invocations that calls using the cache made for installed
\* package p, under pip's own comparison of names
QueriesOf(p) ==
    {i \in 1..Len(queries) : PipCanonical(queries[i].name) = p /\ queries[i].cache}

\* the invocations made for cache key k by calls that use the cache
CachedQueriesOf(k) == {i \in 1..Len(queries) : queries[i].name = k /\ queries[i].cache}

CacheKeys == {queries[i].name : i \in 1..Len(queries)} \cup DOMAIN cache

=============================================================================
